---- MODULE Spec2Model ----
(***************************************************************************)
(* Model of app.py: a Flask relay between a browser session and a local    *)
(* LM Studio inference server.                                              *)
(*                                                                          *)
(* Text is modelled as a sequence of one-character strings, so that        *)
(* str.strip() and substring tests are computed rather than assumed.       *)
(* JSON values are tagged records: [t |-> "null"], [t |-> "str", v |-> s], *)
(* [t |-> "num", v |-> n], [t |-> "list", v |-> seq], [t |-> "obj",        *)
(* v |-> function from keys to JSON values].                               *)
(*                                                                          *)
(* Flask's default session is a signed cookie held by the client: a        *)
(* request carries the cookie as it was when the request was sent, the     *)
(* handler works on that copy, and the response replaces the client's      *)
(* cookie only when the handler marked the session as modified.            *)
(***************************************************************************)
EXTENDS Integers, Sequences, FiniteSets, TLC

VARIABLES
  session,   \* session[s]: the session cookie the client of s holds
  inflight,  \* inflight[r]: the r-th request sent and, once answered, its response
  backend    \* the outcome the inference server gives to the next call

vars == <<session, inflight, backend>>

----------------------------------------------------------------------------
(* Bounds of the model *)

\* Longest "content" text the inference server answers with.
MaxLen == 2
\* Most entries of the backend's "choices" list.
MaxChoices == 2
\* Requests the clients send in one behaviour; any number of them may be in
\* flight at once.
MaxRequests == 2

\* Two clients. A request reads and writes the cookie of its own client only.
Sessions == {"s1", "s2"}
Requests == 1..MaxRequests

\* Characters of the strings the backend and the user produce.
Chars == {" ", "a"}
\* What str.strip() removes (Python's ASCII whitespace).
Whitespace == {" ", "\t", "\n", "\r", "\f"}

Strings(n) == UNION {[1..k -> Chars] : k \in 0..n}

----------------------------------------------------------------------------
(* Configuration and literals of app.py *)

SYSTEM_PROMPT ==
  <<"Y", "o", "u", " ", "a", "r", "e", " ", "a", " ", "h", "e", "l", "p", "f", "u",
    "l", " ", "a", "n", "d", " ", "f", "r", "i", "e", "n", "d", "l", "y", " ", "A",
    "I", " ", "a", "s", "s", "i", "s", "t", "a", "n", "t", ".", " ", "I", " ", "p",
    "r", "e", "f", "e", "r", " ", "c", "o", "n", "c", "i", "s", "e", " ", "r", "e",
    "s", "p", "o", "n", "s", "e", "s", ".">>

ERR_INVALID_RESPONSE ==
  <<"E", "r", "r", "o", "r", ":", " ", "R", "e", "c", "e", "i", "v", "e", "d", " ",
    "a", "n", " ", "i", "n", "v", "a", "l", "i", "d", " ", "r", "e", "s", "p", "o",
    "n", "s", "e", " ", "f", "r", "o", "m", " ", "t", "h", "e", " ", "m", "o", "d",
    "e", "l", ".">>

ERR_CONNECT_PREFIX ==
  <<"E", "r", "r", "o", "r", ":", " ", "C", "o", "u", "l", "d", " ", "n", "o", "t",
    " ", "c", "o", "n", "n", "e", "c", "t", " ", "t", "o", " ", "t", "h", "e", " ",
    "L", "M", " ", "S", "t", "u", "d", "i", "o", " ", "s", "e", "r", "v", "e", "r",
    ".", " ", "D", "e", "t", "a", "i", "l", "s", ":", " ">>

ERR_INVALID_FORMAT ==
  <<"E", "r", "r", "o", "r", ":", " ", "I", "n", "v", "a", "l", "i", "d", " ", "r",
    "e", "s", "p", "o", "n", "s", "e", " ", "f", "o", "r", "m", "a", "t", " ", "f",
    "r", "o", "m", " ", "t", "h", "e", " ", "A", "P", "I", ".">>

NO_MESSAGE_PROVIDED ==
  <<"N", "o", " ", "m", "e", "s", "s", "a", "g", "e", " ", "p", "r", "o", "v", "i",
    "d", "e", "d">>

INDEX_HTML == <<"i", "n", "d", "e", "x", ".", "h", "t", "m", "l">>

----------------------------------------------------------------------------
(* JSON values *)

JNull == [t |-> "null"]
JStr(s) == [t |-> "str", v |-> s]
JNum(n) == [t |-> "num", v |-> n]
JList(l) == [t |-> "list", v |-> l]
JObj(f) == [t |-> "obj", v |-> f]

EmptyDict == JObj([k \in {} |-> JNull])
Dict1(key, val) == JObj([k \in {key} |-> val])

----------------------------------------------------------------------------
(* Python operations used by app.py. Each yields Ok(value) or Err(exception *)
(* class), as the interpreter does for the operand types at hand.          *)

Ok(x) == [ok |-> TRUE, val |-> x, exc |-> "none"]
Err(e) == [ok |-> FALSE, val |-> <<>>, exc |-> e]

\* s[i..i+Len(sub)-1] = sub for some i
IsSubstring(sub, s) ==
  \E i \in 0..(Len(s) - Len(sub)) : SubSeq(s, i + 1, i + Len(sub)) = sub

RECURSIVE lstrip(_)
lstrip(s) == IF s # <<>> /\ Head(s) \in Whitespace THEN lstrip(Tail(s)) ELSE s

RECURSIVE rstrip(_)
rstrip(s) ==
  IF s # <<>> /\ s[Len(s)] \in Whitespace THEN rstrip(SubSeq(s, 1, Len(s) - 1)) ELSE s

\* Mutant of strip: str.lstrip() in its place.
strip_leading_only(s) == lstrip(s)

\* str.strip()
strip(s) == rstrip(lstrip(s))

\* bool(x): None, "", 0, [] and {} are falsy
Truthy(j) ==
  CASE j.t = "null" -> FALSE
    [] j.t = "str" -> Len(j.v) > 0
    [] j.t = "num" -> j.v # 0
    [] j.t = "list" -> Len(j.v) > 0
    [] j.t = "obj" -> DOMAIN j.v # {}

\* dict.get(key): None when the key is absent
DictGet(d, key) == IF key \in DOMAIN d.v THEN d.v[key] ELSE JNull

\* key in x, for a str key
PyIn(key, x) ==
  CASE x.t = "obj" -> Ok(key \in DOMAIN x.v)
    [] x.t = "list" -> Ok(\E i \in 1..Len(x.v) : x.v[i] = JStr(key))
    [] x.t = "str" -> Ok(IsSubstring(key, x.v))
    [] OTHER -> Err("TypeError")

\* len(x)
PyLen(x) ==
  CASE x.t = "obj" -> Ok(Cardinality(DOMAIN x.v))
    [] x.t \in {"list", "str"} -> Ok(Len(x.v))
    [] OTHER -> Err("TypeError")

\* x[key], for a str key (keys are modelled by their name)
PyGetItem(x, key) ==
  CASE x.t = "obj" -> IF key \in DOMAIN x.v THEN Ok(x.v[key]) ELSE Err("KeyError")
    [] OTHER -> Err("TypeError")

\* x[0]; a JSON object has str keys only, so 0 is never one of them
PyFirst(x) ==
  CASE x.t = "list" -> IF Len(x.v) > 0 THEN Ok(x.v[1]) ELSE Err("IndexError")
    [] x.t = "str" -> IF Len(x.v) > 0 THEN Ok(JStr(<<x.v[1]>>)) ELSE Err("IndexError")
    [] x.t = "obj" -> Err("KeyError")
    [] OTHER -> Err("TypeError")

\* x.strip(): only str has the method
PyStrip(x) == IF x.t = "str" THEN Ok(strip(x.v)) ELSE Err("AttributeError")

----------------------------------------------------------------------------
(* The inference server as app.py sees it: what requests.post, *)
(* raise_for_status and response.json() do at lines 39-41.     *)

\* Subclasses of requests.exceptions.RequestException raised at lines 39-41:
\* no connection, the 120 s timeout, an HTTP error status, a body that is not
\* JSON (requests.exceptions.JSONDecodeError, a RequestException since
\* requests 2.27).
RequestExceptions == {"ConnectionError", "Timeout", "HTTPError", "JSONDecodeError"}

\* str(e) of the exception, embedded in the reply by the f-string of line 50
ExcText(e) ==
  CASE e = "ConnectionError" -> <<"r", "e", "f", "u", "s", "e", "d">>
    [] e = "Timeout" -> <<"t", "i", "m", "e", "d", " ", "o", "u", "t">>
    [] e = "HTTPError" -> <<"5", "0", "0">>
    [] e = "JSONDecodeError" -> <<"n", "o", "t", " ", "j", "s", "o", "n">>

\* The JSON bodies the server can answer with: the expected shape
\* {choices: [{message: {content}}]} and every way of cutting it short.
ContentValues == {JNull} \cup {JStr(s) : s \in Strings(MaxLen)}
MessageValues == {JNull, EmptyDict} \cup {Dict1("content", c) : c \in ContentValues}
ChoiceValues == {JNull, EmptyDict} \cup {Dict1("message", m) : m \in MessageValues}
\* The code reads choices[0] alone, so the first entry takes every shape and
\* the entries after it are a null or a well-formed choice with another text.
OtherChoices == {JNull, Dict1("message", Dict1("content", JStr(<<"a", "a">>)))}
ChoiceLists ==
  {<<>>} \cup {<<c>> \o rest : c \in ChoiceValues,
                             rest \in UNION {[1..n -> OtherChoices] : n \in 0..(MaxChoices - 1)}}
ChoicesValues == {JNull} \cup {JList(l) : l \in ChoiceLists}
ResponseBodies ==
  {JNull, JList(<<>>), EmptyDict} \cup {Dict1("choices", c) : c \in ChoicesValues}

Raises(e) == [exc |-> e, body |-> JNull]
Answers(j) == [exc |-> "none", body |-> j]
BackendOutcomes == {Raises(e) : e \in RequestExceptions} \cup {Answers(j) : j \in ResponseBodies}

----------------------------------------------------------------------------
(* get_model_response, lines 27-52 *)

\* Lines 39-47, the body of the try block: Ok(text) or Err(exception class).
TryBody(outcome) ==
  IF outcome.exc # "none" THEN Err(outcome.exc)
  ELSE
    LET response_json == outcome.body
        has == PyIn("choices", response_json)
    IN  IF ~has.ok THEN has
        ELSE IF ~has.val THEN Ok(ERR_INVALID_RESPONSE)
        ELSE
          LET choices == PyGetItem(response_json, "choices")
              n == IF choices.ok THEN PyLen(choices.val) ELSE choices
          IN  IF ~n.ok THEN n
              ELSE IF ~(n.val > 0) THEN Ok(ERR_INVALID_RESPONSE)
              ELSE
                LET first == PyFirst(choices.val)
                    message == IF first.ok THEN PyGetItem(first.val, "message") ELSE first
                    content == IF message.ok THEN PyGetItem(message.val, "content") ELSE message
                IN  IF content.ok THEN PyStrip(content.val) ELSE content

\* Mutant of get_model_response: the KeyError clause gives the text of line 47.
get_model_response_one_text(outcome) ==
  LET r == TryBody(outcome)
  IN  IF r.ok THEN r
      ELSE IF r.exc \in RequestExceptions THEN Ok(ERR_CONNECT_PREFIX \o ExcText(r.exc))
      ELSE IF r.exc = "KeyError" THEN Ok(ERR_INVALID_RESPONSE)
      ELSE r

\* Lines 38-52: the except clauses turn RequestException and KeyError into
\* text; every other exception leaves the function.
get_model_response(outcome) ==
  LET r == TryBody(outcome)
  IN  IF r.ok THEN r
      ELSE IF r.exc \in RequestExceptions THEN Ok(ERR_CONNECT_PREFIX \o ExcText(r.exc))
      ELSE IF r.exc = "KeyError" THEN Ok(ERR_INVALID_FORMAT)
      ELSE r

\* Everything get_model_response can give, over the outcomes of the server.
ModelResponses == {get_model_response(outcome) : outcome \in BackendOutcomes}

----------------------------------------------------------------------------
(* The session and the two routes *)

Message(role, content) == [role |-> role, content |-> content]

\* A session cookie: has = ('chat_history' in session), hist = session['chat_history']
NoHistory == [has |-> FALSE, hist |-> <<>>]
WithHistory(h) == [has |-> TRUE, hist |-> h]

\* session.get('chat_history', [])
SessionGet(sess) == IF sess.has THEN sess.hist ELSE <<>>

\* What a handler hands back: the request's session object, whether Flask saw
\* it modified (a key assigned; a list changed in place is not seen), the HTTP
\* status and body, and whether the inference server was called.
Handled(sess, modified, status, body, called) ==
  [session |-> sess, modified |-> modified, status |-> status, body |-> body,
   called |-> called]

SystemMessage == Message("system", JStr(SYSTEM_PROMPT))

\* Mutant of index: the transcript is seeded on every GET /.
index_reseed(sess) ==
  Handled(WithHistory(<<SystemMessage>>), TRUE, 200, JStr(INDEX_HTML), FALSE)

\* index, lines 54-60
index(sess) ==
  IF ~sess.has
    THEN Handled(WithHistory(<<SystemMessage>>), TRUE, 200,
                 JStr(INDEX_HTML), FALSE)
    ELSE Handled(sess, FALSE, 200, JStr(INDEX_HTML), FALSE)

\* The turn of lines 69-79 for a message already accepted.
Turn(sess, user_message, ai_response) ==
  LET chat_history == Append(SessionGet(sess), Message("user", user_message))
  IN  IF ~ai_response.ok
        THEN Handled(IF sess.has THEN WithHistory(chat_history) ELSE sess,
                     FALSE, 500, JStr(<<ai_response.exc>>), TRUE)
        ELSE Handled(
               WithHistory(Append(chat_history,
                                  Message("assistant", JStr(ai_response.val)))),
               TRUE, 200, Dict1("response", JStr(ai_response.val)), TRUE)

\* Mutant of chat: line 66 tests `user_message is None`.
chat_none_check(sess, body, ai_response) ==
  LET user_message == DictGet(body, "message")
  IN  IF user_message = JNull
        THEN Handled(sess, FALSE, 400, Dict1("error", JStr(NO_MESSAGE_PROVIDED)), FALSE)
        ELSE Turn(sess, user_message, ai_response)

\* Mutant of chat: the test of line 66 is made after the turn was stored.
chat_late_check(sess, body, ai_response) ==
  LET user_message == DictGet(body, "message")
      turn == Turn(sess, user_message, ai_response)
  IN  IF ~Truthy(user_message)
        THEN Handled(turn.session, turn.modified, 400,
                     Dict1("error", JStr(NO_MESSAGE_PROVIDED)), turn.called)
        ELSE turn

\* chat, lines 62-79, ai_response being what the call of line 73 gives once
\* it is made. An exception leaving get_model_response ends the handler
\* at line 73 with status 500: the user message was appended to the list in
\* place (a list that is in the session only if the session had one), and
\* line 77 never ran.
chat(sess, body, ai_response) ==
  LET user_message == DictGet(body, "message")
  IN  IF ~Truthy(user_message)
        THEN Handled(sess, FALSE, 400, Dict1("error", JStr(NO_MESSAGE_PROVIDED)), FALSE)
        ELSE Turn(sess, user_message, ai_response)

\* Mutant of save_session: the cookie is rewritten after every request.
save_session_always(stored, handled) == handled.session

\* Mutant of save_session: a store that appends the new turn to what it holds.
save_session_append(stored, handled) ==
  LET h == handled.session.hist
  IN  IF handled.modified /\ Len(h) >= 2 /\ h[Len(h)].role = "assistant"
        THEN WithHistory(SessionGet(stored) \o SubSeq(h, Len(h) - 1, Len(h)))
        ELSE IF handled.modified THEN handled.session ELSE stored

\* SecureCookieSessionInterface.save_session: the cookie is rewritten only
\* when the session was modified.
save_session(stored, handled) == IF handled.modified THEN handled.session ELSE stored

----------------------------------------------------------------------------
(* Requests. Request r is the r-th request the clients send; it keeps its   *)
(* record once answered.                                                    *)

\* The JSON object a client posts to /chat: with or without "message"; the
\* message null, the empty text, or a text.
PostedMessages == {JNull, JStr(<<>>), JStr(<<"a">>)}
RequestBodies == {EmptyDict} \cup {Dict1("message", m) : m \in PostedMessages}

Idle ==
  [pc |-> "idle", route |-> "none", sid |-> "none", sent |-> NoHistory, body |-> JNull,
   status |-> 0, resp |-> JNull, called |-> FALSE]

\* A request on its way: the cookie travels with it as it was when it was sent.
Sent(route, s, cookie, body) ==
  [pc |-> "sent", route |-> route, sid |-> s, sent |-> cookie, body |-> body,
   status |-> 0, resp |-> JNull, called |-> FALSE]

\* The request answered.
Answered(req, handled) ==
  [req EXCEPT !.pc = "done", !.status = handled.status, !.resp = handled.body,
              !.called = handled.called]

\* r is the next request to be sent.
IsNext(r) == inflight[r].pc = "idle" /\ \A q \in 1..(r - 1) : inflight[q].pc # "idle"

Init ==
  /\ session = [s \in Sessions |-> NoHistory]
  /\ inflight = [r \in Requests |-> Idle]
  /\ backend = "live"

\* The client of s sends GET /.
IndexRequest(r, s) ==
  /\ IsNext(r)
  /\ inflight' = [inflight EXCEPT ![r] = Sent("index", s, session[s], JNull)]
  /\ UNCHANGED <<session, backend>>

\* index runs on the cookie it was sent; the client takes the response.
IndexResponse(r) ==
  /\ inflight[r].pc = "sent" /\ inflight[r].route = "index"
  /\ LET req == inflight[r]
         handled == index(req.sent)
     IN  /\ session' = [session EXCEPT ![req.sid] = save_session(@, handled)]
         /\ inflight' = [inflight EXCEPT ![r] = Answered(req, handled)]
  /\ UNCHANGED backend

\* The client of s sends POST /chat with a JSON object.
ChatRequest(r, s, body) ==
  /\ IsNext(r)
  /\ inflight' = [inflight EXCEPT ![r] = Sent("chat", s, session[s], body)]
  /\ UNCHANGED <<session, backend>>

\* chat runs on the cookie it was sent, get_model_response giving ai_response;
\* the client takes the response.
ChatResponse(r, ai_response) ==
  /\ inflight[r].pc = "sent" /\ inflight[r].route = "chat"
  /\ LET req == inflight[r]
         handled == chat(req.sent, req.body, ai_response)
     IN  /\ session' = [session EXCEPT ![req.sid] = save_session(@, handled)]
         /\ inflight' = [inflight EXCEPT ![r] = Answered(req, handled)]
  /\ UNCHANGED backend

Next ==
  \/ \E r \in Requests, s \in Sessions : IndexRequest(r, s)
  \/ \E r \in Requests : IndexResponse(r)
  \/ \E r \in Requests, s \in Sessions, body \in RequestBodies : ChatRequest(r, s, body)
  \/ \E r \in Requests, ai_response \in ModelResponses : ChatResponse(r, ai_response)

\* The server answers each call as it pleases.
Spec == Init /\ [][Next]_vars

\* The inference server replaced by a stub that gives one outcome to every call.
InitStub ==
  /\ session = [s \in Sessions |-> NoHistory]
  /\ inflight = [r \in Requests |-> Idle]
  /\ backend \in BackendOutcomes

NextStub ==
  \/ \E r \in Requests, s \in Sessions : IndexRequest(r, s)
  \/ \E r \in Requests : IndexResponse(r)
  \/ \E r \in Requests, s \in Sessions, body \in RequestBodies : ChatRequest(r, s, body)
  \/ \E r \in Requests : ChatResponse(r, get_model_response(backend))

SpecStub == InitStub /\ [][NextStub]_vars

----------------------------------------------------------------------------
(* Vocabulary of the properties *)

IsChat(r) == inflight[r].route = "chat"
IsIndex(r) == inflight[r].route = "index"
IsDone(r) == inflight[r].pc = "done"

\* Request r is answered by this step.
AnsweredNow(r) == inflight[r].pc = "sent" /\ inflight'[r].pc = "done"

\* request.json.get("message") of a chat request
Posted(r) == DictGet(inflight[r].body, "message")

\* The body is {"response": <a text>}.
IsResponseText(j) == j.t = "obj" /\ DOMAIN j.v = {"response"} /\ j.v["response"].t = "str"

\* The transcript the client of s holds (empty when it holds none).
Transcript(s) == session[s].hist

\* Nothing of the same session is in flight beside r, and the client still
\* holds the cookie r was sent with.
NotInterleaved(r) ==
  /\ session[inflight[r].sid] = inflight[r].sent
  /\ \A q \in Requests \ {r} :
       inflight[q].sid = inflight[r].sid => inflight[q].pc # "sent"

\* t is c without its leading and trailing whitespace, said without strip.
IsTrimOf(t, c) ==
  \E i \in 0..Len(c) : \E j \in i..Len(c) :
    /\ t = SubSeq(c, i + 1, j)
    /\ \A k \in 1..i : c[k] \in Whitespace
    /\ \A k \in (j + 1)..Len(c) : c[k] \in Whitespace
    /\ t # <<>> => (t[1] \notin Whitespace /\ t[Len(t)] \notin Whitespace)

\* The shapes of a stub's answer.
IsJson(o) == o.exc = "none"
HasChoicesKey(o) == IsJson(o) /\ o.body.t = "obj" /\ "choices" \in DOMAIN o.body.v
ChoicesOf(o) == o.body.v["choices"]
HasFirstChoice(o) == HasChoicesKey(o) /\ ChoicesOf(o).t = "list" /\ Len(ChoicesOf(o).v) > 0
FirstChoice(o) == ChoicesOf(o).v[1]
HasMessage(o) ==
  HasFirstChoice(o) /\ FirstChoice(o).t = "obj" /\ "message" \in DOMAIN FirstChoice(o).v
MessageOf(o) == FirstChoice(o).v["message"]
HasContent(o) == HasMessage(o) /\ MessageOf(o).t = "obj" /\ "content" \in DOMAIN MessageOf(o).v
ContentOf(o) == MessageOf(o).v["content"]
WellFormed(o) == HasContent(o) /\ ContentOf(o).t = "str"

\* A JSON object without the choices key, or with an empty choices list.
LacksChoices(o) ==
  \/ IsJson(o) /\ o.body.t = "obj" /\ "choices" \notin DOMAIN o.body.v
  \/ HasChoicesKey(o) /\ ChoicesOf(o).t = "list" /\ Len(ChoicesOf(o).v) = 0
\* A first choice that is an object without message, or whose message is an
\* object without content.
LacksInner(o) ==
  \/ HasFirstChoice(o) /\ FirstChoice(o).t = "obj" /\ "message" \notin DOMAIN FirstChoice(o).v
  \/ HasMessage(o) /\ MessageOf(o).t = "obj" /\ "content" \notin DOMAIN MessageOf(o).v
MissingField(o) == LacksChoices(o) \/ LacksInner(o)

InvalidResponseText ==
  <<"i", "n", "v", "a", "l", "i", "d", " ", "r", "e", "s", "p", "o", "n", "s", "e">>

\* Request r is a chat request with a non-empty message, answered.
ChatTurnDone(r) == IsDone(r) /\ IsChat(r) /\ Truthy(Posted(r))

----------------------------------------------------------------------------
(* Properties *)

\* C1: whenever a session holds a transcript, its first message is the system
\* message with the configured prompt. (Spec)
C1_FirstIsSystemPrompt ==
  \A s \in Sessions :
    session[s].has => (Len(Transcript(s)) > 0 /\ Transcript(s)[1] = SystemMessage)

\* C2: a POST /chat with a non-empty message that is not interleaved with
\* another request of its session grows the stored transcript by exactly two
\* messages, the user message with the posted text and then the assistant
\* message with the text the response carries. (Spec)
C2_ChatAppendsTwo ==
  [][\A r \in Requests :
       (AnsweredNow(r) /\ IsChat(r) /\ Truthy(Posted(r)) /\ NotInterleaved(r)) =>
         /\ IsResponseText(inflight'[r].resp)
         /\ Transcript(inflight[r].sid)' =
              Transcript(inflight[r].sid) \o
                <<Message("user", Posted(r)),
                  Message("assistant", inflight'[r].resp.v["response"])>>]_vars

\* C2, where get_model_response returns: the same growth by two.
C2_AppendsTwoWhenReturned ==
  [][\A r \in Requests :
       (AnsweredNow(r) /\ IsChat(r) /\ Truthy(Posted(r)) /\ NotInterleaved(r)
          /\ inflight'[r].status # 500) =>
         /\ IsResponseText(inflight'[r].resp)
         /\ Transcript(inflight[r].sid)' =
              Transcript(inflight[r].sid) \o
                <<Message("user", Posted(r)),
                  Message("assistant", inflight'[r].resp.v["response"])>>]_vars

\* C3: whatever the backend does, a POST /chat with a non-empty message is
\* answered with status 200 and a body {"response": text}. (SpecStub)
C3_AlwaysAnswersWithText ==
  \A r \in Requests :
    ChatTurnDone(r) => (inflight[r].status = 200 /\ IsResponseText(inflight[r].resp))

\* C3, for the outcomes the except clauses cover and the answers in which every
\* value on the way to content has its expected type: the text is returned.
C3_AnswersWhenTypesFit ==
  \A r \in Requests :
    (ChatTurnDone(r) /\ (~IsJson(backend) \/ MissingField(backend) \/ WellFormed(backend)))
      => (inflight[r].status = 200 /\ IsResponseText(inflight[r].resp))

\* C4: for every answer that misses an expected field, the reply is one fixed
\* text, the one given for an answer without choices, and it contains
\* "invalid response". (SpecStub)
C4_OneFixedText ==
  \A r \in Requests :
    (ChatTurnDone(r) /\ MissingField(backend)) =>
      /\ inflight[r].resp = Dict1("response", JStr(ERR_INVALID_RESPONSE))
      /\ IsSubstring(InvalidResponseText, inflight[r].resp.v["response"].v)

\* C4 amended: an answer without the choices key or with an empty choices list
\* gives the text of line 47, which contains "invalid response"; a first choice
\* without message or a message without content gives the text of line 52,
\* which does not contain it (it reads "Invalid response"). (SpecStub)
C4_TwoFixedTexts ==
  \A r \in Requests :
    ChatTurnDone(r) =>
      /\ LacksChoices(backend) =>
           /\ inflight[r].resp = Dict1("response", JStr(ERR_INVALID_RESPONSE))
           /\ IsSubstring(InvalidResponseText, inflight[r].resp.v["response"].v)
      /\ LacksInner(backend) =>
           /\ inflight[r].resp = Dict1("response", JStr(ERR_INVALID_FORMAT))
           /\ ~IsSubstring(InvalidResponseText, inflight[r].resp.v["response"].v)

C4_Witness ==
  \E r \in Requests :
    /\ ChatTurnDone(r) /\ inflight[r].status = 200
    /\ HasMessage(backend) /\ MessageOf(backend) = EmptyDict

\* C5: a POST /chat whose JSON object has no message, or an empty one, is
\* answered 400 with {"error": "No message provided"}. (Spec)
C5_MissingMessageIs400 ==
  \A r \in Requests :
    (IsDone(r) /\ IsChat(r)
       /\ ("message" \notin DOMAIN inflight[r].body.v \/ Posted(r) = JStr(<<>>))) =>
      /\ inflight[r].status = 400
      /\ inflight[r].resp = Dict1("error", JStr(NO_MESSAGE_PROVIDED))

C5_Witness ==
  /\ \E r \in Requests : IsDone(r) /\ IsChat(r) /\ inflight[r].body = EmptyDict
  /\ \E r \in Requests : IsDone(r) /\ IsChat(r) /\ inflight[r].body = Dict1("message", JStr(<<>>))

\* C6: when the backend's answer is well formed, the response is the content of
\* the first choice's message without its leading and trailing whitespace.
\* (SpecStub)
C6_FirstChoiceTrimmed ==
  \A r \in Requests :
    (ChatTurnDone(r) /\ WellFormed(backend)) =>
      /\ inflight[r].status = 200
      /\ IsResponseText(inflight[r].resp)
      /\ IsTrimOf(inflight[r].resp.v["response"].v, ContentOf(backend).v)

C6_Witness ==
  \E r \in Requests :
    /\ ChatTurnDone(r) /\ WellFormed(backend)
    /\ ContentOf(backend).v = <<" ", "a">>
    /\ Len(ChoicesOf(backend).v) > 1
    /\ ChoicesOf(backend).v[2] # FirstChoice(backend)
    /\ inflight[r].resp = Dict1("response", JStr(<<"a">>))

\* C7: GET / on a session cookie without a transcript stores a transcript that
\* is the system message alone; on a cookie with a transcript it leaves the
\* stored session as it is. (Spec)
C7_IndexGetOrInit ==
  [][\A r \in Requests :
       (AnsweredNow(r) /\ IsIndex(r)) =>
         IF inflight[r].sent.has
           THEN session' = session
           ELSE session'[inflight[r].sid] = WithHistory(<<SystemMessage>>)]_vars

C7_Witness ==
  /\ \E r \in Requests : IsDone(r) /\ IsIndex(r) /\ ~inflight[r].sent.has
  /\ \E r \in Requests : IsDone(r) /\ IsIndex(r) /\ inflight[r].sent.has

\* C8: a chat response stores the transcript its request was sent with plus its
\* own turn, whatever the client holds by then; so of two chat requests sent
\* with the same transcript and both answered, the turn stored first is lost.
\* (Spec)
C8_ResponseStoresOwnCopy ==
  [][\A r \in Requests :
       (AnsweredNow(r) /\ IsChat(r) /\ inflight'[r].status = 200) =>
         Transcript(inflight[r].sid)' =
           inflight[r].sent.hist \o
             <<Message("user", Posted(r)),
               Message("assistant", inflight'[r].resp.v["response"])>>]_vars

\* Both requests read the same transcript, both were answered with a response,
\* and the stored transcript holds the turn of one of them alone.
C8_Witness ==
  \E r \in Requests, q \in Requests :
    /\ r # q /\ inflight[r].sid = inflight[q].sid
    /\ ChatTurnDone(r) /\ ChatTurnDone(q)
    /\ inflight[r].status = 200 /\ inflight[q].status = 200
    /\ inflight[r].sent = inflight[q].sent
    /\ inflight[r].resp # inflight[q].resp
    /\ Transcript(inflight[r].sid) =
         inflight[r].sent.hist \o
           <<Message("user", Posted(r)),
             Message("assistant", inflight[r].resp.v["response"])>>

\* C9: a POST /chat answered 400 leaves the stored session as it is and makes
\* no call of the inference server. (Spec)
C9_RejectedChangesNothing ==
  [][\A r \in Requests :
       (AnsweredNow(r) /\ IsChat(r) /\ inflight'[r].status = 400) =>
         (session' = session /\ ~inflight'[r].called)]_vars

C9_Witness ==
  \E r \in Requests :
    /\ IsDone(r) /\ IsChat(r) /\ inflight[r].status = 400
    /\ inflight[r].sent.has /\ session[inflight[r].sid] = inflight[r].sent

\* C10: a stored transcript is at most one system message, at position 1 only,
\* followed by pairs of a user message and an assistant message. (Spec)
C10_TranscriptShape ==
  \A s \in Sessions :
    LET h == Transcript(s)
        turns == IF h # <<>> /\ h[1].role = "system" THEN Tail(h) ELSE h
    IN  /\ Len(turns) % 2 = 0
        /\ \A i \in 1..Len(turns) :
             turns[i].role = (IF i % 2 = 1 THEN "user" ELSE "assistant")

C10_Witness ==
  \E s \in Sessions :
    /\ Len(Transcript(s)) >= 4
    /\ \A r \in Requests : IsDone(r)

====
